---- MODULE Spec2Model ----
(***************************************************************************)
(* GitHubPlugin (main.py): OAuth authorize-callback, /github.repos command *)
(* and webhook intake, as coroutines of one asyncio event loop.  A handler *)
(* runs atomically from one await to the next; the awaits on the network   *)
(* (token endpoint, repositories endpoint, request body, send_message) are *)
(* the suspension points at which other handlers interleave.               *)
(***************************************************************************)
EXTENDS Integers, Sequences, FiniteSets, Bags, TLC

VARIABLES
    server_started,   \* GitHubPlugin._server_started (class attribute)
    constructed,      \* number of GitHubPlugin instances constructed so far
    server_self,      \* instance whose bound handlers the router holds (0: none)
    server_tasks,     \* start_http_server tasks created so far
    user_tokens,      \* user_tokens[i]: self.user_tokens of instance i
    webhook_channel,  \* self.webhook_channel (stripped configuration value)
    inflight,         \* bag of handler coroutines suspended at an await
    done,             \* the handler call that ended most recently
    granted,          \* history: token of the last completed successful exchange, per state
    deliveries,       \* history: POST deliveries with a JSON body accepted so far
    dispatched        \* history: calls of context.send_message so far

lifecycle == <<server_started, constructed, server_self, server_tasks>>

vars == <<lifecycle, user_tokens, webhook_channel, inflight, done, granted,
          deliveries, dispatched>>

----------------------------------------------------------------------------
(* Bounds *)
MaxTasks == 2        \* handler coroutines in flight at once
MaxDeliveries == 2   \* webhook deliveries accepted in one behaviour
MaxInstances == 2    \* plugin constructions in one process

----------------------------------------------------------------------------
(* Values *)
None == "<None>"                 \* Python None
Users == {"u1", "u2"}            \* sender ids / state values
Tokens == {"T1", "T2"}           \* access tokens the provider issues
Codes == {"c1"}                  \* authorization codes
Methods == {"GET", "POST"}       \* request.method as the server parses it

Truthy(x) == x \notin {None, ""}  \* Python truth value of an str-or-None

\* dict.get(key) / dict.get(key, default)
Get(d, k) == IF k \in DOMAIN d THEN d[k] ELSE None
GetDefault(d, k, default) == IF k \in DOMAIN d THEN d[k] ELSE default

EmptyDict == [k \in {} |-> ""]
Unset == [k \in {"<unset>"} |-> ""]   \* a local not assigned yet

\* dict[key] = value
PutAlone(d, k, v) == [x \in {k} |-> v]

Put(d, k, v) == [x \in (DOMAIN d) \cup {k} |-> IF x = k THEN v ELSE d[x]]

\* str.upper() on the method names that occur
Upper(m) == IF m = "get" THEN "GET" ELSE IF m = "post" THEN "POST" ELSE m

\* request.query of an authorize-callback: code and state each absent, empty or set
QueryOK(q) ==
    /\ "code" \in DOMAIN q => q["code"] \in {""} \cup Codes
    /\ "state" \in DOMAIN q => q["state"] \in {""} \cup Users

Queries ==
    { q \in UNION { [ks -> {""} \cup Codes \cup Users] :
                        ks \in SUBSET {"code", "state"} } : QueryOK(q) }

\* JSON bodies the token endpoint answers with
TokenResults ==
    { [k \in {"access_token"} |-> "T1"],
      [k \in {"access_token"} |-> "T2"],
      [k \in {"access_token"} |-> ""],
      EmptyDict,
      [k \in {"error_description"} |-> "bad_verification_code"] }

\* web.Response(text=..., status=...)
Response(status, text) == [status |-> status, text |-> text]
NoResponse == [status |-> 0, text |-> <<>>]

NoCall == [kind |-> "none"]

Store(i) == user_tokens[i]

----------------------------------------------------------------------------
(* Scheduling of coroutines *)
SuspendExclusive(t) ==
    /\ inflight = EmptyBag
    /\ inflight' = inflight (+) SetToBag({t})

\* the handler reaches an await and the event loop takes over
Suspend(t) ==
    /\ BagCardinality(inflight) < MaxTasks
    /\ inflight' = inflight (+) SetToBag({t})

Resume(t, t2) == inflight' = (inflight (-) SetToBag({t})) (+) SetToBag({t2})

Finish(t) == inflight' = inflight (-) SetToBag({t})

Suspended(kind, pc) ==
    { t \in BagToSet(inflight) : t.kind = kind /\ t.pc = pc }

----------------------------------------------------------------------------
(* oauth_callback_handler *)

OAuthTask(pc, method, code, state, result, resp, exc) ==
    [kind |-> "oauth", pc |-> pc, self |-> server_self, method |-> method,
     code |-> code, state |-> state, result |-> result, resp |-> resp,
     exc |-> exc]

MissingParamsNoneOnly(code, state) == code = None \/ state = None

\* line 68: if not code or not state
MissingParams(code, state) == ~Truthy(code) \/ ~Truthy(state)

\* lines 74-83: the POST sent to the token endpoint
TokenRequest(t) ==
    [method |-> "POST", url |-> "https://github.com/login/oauth/access_token",
     code |-> t.code, state |-> t.state, Accept |-> "application/json"]

\* lines 63-83: up to the await on the token endpoint
oauth_callback_begin(method, query) ==
    LET code == Get(query, "code")
        state == Get(query, "state")
    IN  /\ IF Upper(method) # "GET"
           THEN /\ done' = OAuthTask("done", method, None, None, Unset,
                                     Response(405, <<"method_not_allowed">>), None)
                /\ UNCHANGED inflight
           ELSE IF MissingParams(code, state)
           THEN /\ done' = OAuthTask("done", method, code, state, Unset,
                                     Response(400, <<"missing_code_or_state">>), None)
                /\ UNCHANGED inflight
           ELSE /\ Suspend(OAuthTask("await_token", method, code, state, Unset,
                                     NoResponse, None))
                /\ UNCHANGED done
        /\ UNCHANGED <<lifecycle, user_tokens,
                       webhook_channel, granted, deliveries, dispatched>>

\* lines 83-84: the token endpoint answered and resp.json() gave a dict
oauth_token_response(t, result) ==
    /\ Resume(t, [t EXCEPT !.pc = "close_session", !.result = result])
    /\ UNCHANGED <<lifecycle, user_tokens,
                   webhook_channel, done, granted, deliveries, dispatched>>

\* lines 82-84: session.post or resp.json() raised; nothing catches it
oauth_token_error(t, exc) ==
    /\ Finish(t)
    /\ done' = [t EXCEPT !.pc = "raised", !.exc = exc]
    /\ UNCHANGED <<lifecycle, user_tokens,
                   webhook_channel, granted, deliveries, dispatched>>

GrantedUnchecked(access_token) == TRUE

\* line 86: if access_token
Granted(access_token) == Truthy(access_token)

TokenKeyCode(code, state) == code

\* line 88: the key of the entry written is the state parameter
TokenKey(code, state) == state

StoreTokenKeepFirst(store, key, access_token) ==
    IF key \in DOMAIN store THEN store ELSE Put(store, key, access_token)

\* line 88: self.user_tokens[state] = access_token
StoreToken(store, key, access_token) == Put(store, key, access_token)

\* lines 85-92: after the session is closed
oauth_callback_finish(t) ==
    LET access_token == Get(t.result, "access_token")
    IN  /\ Finish(t)
        /\ IF Granted(access_token)
           THEN /\ user_tokens' = [user_tokens EXCEPT
                       ![t.self] = StoreToken(@, TokenKey(t.code, t.state), access_token)]
                /\ granted' = IF t.state \in Users /\ access_token \in Tokens
                              THEN [granted EXCEPT ![t.state] = access_token]
                              ELSE granted
                /\ done' = [t EXCEPT !.pc = "done",
                                     !.resp = Response(200, <<"authorized">>)]
           ELSE LET err_msg == GetDefault(t.result, "error_description", "unknown_error")
                IN  /\ done' = [t EXCEPT !.pc = "done",
                                   !.resp = Response(400, <<"authorize_failed", err_msg>>)]
                    /\ UNCHANGED <<user_tokens, granted>>
        /\ UNCHANGED <<lifecycle,
                       webhook_channel, deliveries, dispatched>>

----------------------------------------------------------------------------
(* github_repos *)

ReposHeadersNoToken(token) ==
    [Authorization |-> <<"token ">>, Accept |-> "application/json"]

\* line 169: headers of the GET to the repositories endpoint
ReposHeaders(token) ==
    [Authorization |-> <<"token ", token>>, Accept |-> "application/json"]

NoHeaders == [Authorization |-> <<>>, Accept |-> ""]

\* lines 170-172: the GET sent to the repositories endpoint
ReposRequest(t) ==
    [method |-> "GET", url |-> "https://api.github.com/user/repos",
     headers |-> t.headers]

\* answers of https://api.github.com/user/repos: status, raw text, parsed JSON
ApiResponses ==
    { [status |-> 200, text |-> "[]", json |-> <<>>],
      [status |-> 200, text |-> "[a,b]",
       json |-> <<[full_name |-> "o/b"], [full_name |-> "o/a"]>>],
      [status |-> 202, text |-> "[]", json |-> <<>>],
      [status |-> 404, text |-> "Not Found", json |-> <<>>] }

ReposTask(pc, self, user_id, token, headers, status, reply, exc) ==
    [kind |-> "repos", pc |-> pc, self |-> self, user_id |-> user_id,
     token |-> token, headers |-> headers, status |-> status, body |-> "",
     reply |-> reply, exc |-> exc]

AuthorizedUnchecked(token) == TRUE

\* line 166: if not token
Authorized(token) == Truthy(token)

\* lines 164-172: up to the await on the repositories endpoint
github_repos_begin(self, user_id) ==
    LET token == Get(Store(self), user_id)
    IN  /\ IF ~Authorized(token)
           THEN /\ done' = ReposTask("done", self, user_id, token, NoHeaders, 0,
                                     <<"not_authorized">>, None)
                /\ UNCHANGED inflight
           ELSE /\ Suspend(ReposTask("await_get", self, user_id, token,
                                     ReposHeaders(token), 0, <<>>, None))
                /\ UNCHANGED done
        /\ UNCHANGED <<lifecycle, user_tokens,
                       webhook_channel, granted, deliveries, dispatched>>

\* line 181: [repo["full_name"] for repo in repos]
FullNames(repos) == [i \in 1..Len(repos) |-> repos[i].full_name]

\* a status written out in a message
StatusText(status) ==
    CASE status = 200 -> "200" [] status = 202 -> "202"
      [] status = 404 -> "404" [] OTHER -> "?"

ReposReplyByClass(r) ==
    IF r.status \notin 200..299 THEN <<"fetch_failed", StatusText(r.status), r.text>>
    ELSE IF r.json = <<>> THEN <<"no_repos">>
    ELSE <<"your_repos">> \o FullNames(r.json)

\* lines 173-182: the reply for an answer of the repositories endpoint
ReposReply(r) ==
    IF r.status # 200 THEN <<"fetch_failed", r.text>>
    ELSE IF r.json = <<>> THEN <<"no_repos">>
    ELSE <<"your_repos">> \o FullNames(r.json)

\* lines 172-182: the repositories endpoint answered
github_repos_response(t, r) ==
    /\ Finish(t)
    /\ done' = [t EXCEPT !.pc = "done", !.status = r.status, !.body = r.text,
                         !.reply = ReposReply(r)]
    /\ UNCHANGED <<lifecycle, user_tokens,
                   webhook_channel, granted, deliveries, dispatched>>

\* lines 171-177: session.get, resp.text() or resp.json() raised
github_repos_error(t, exc) ==
    /\ Finish(t)
    /\ done' = [t EXCEPT !.pc = "raised", !.exc = exc]
    /\ UNCHANGED <<lifecycle, user_tokens,
                   webhook_channel, granted, deliveries, dispatched>>

----------------------------------------------------------------------------
(* webhook_handler *)

\* request bodies of a delivery
Bodies == { "not-json", "null", "{\"ref\":\"refs/heads/main\"}" }

\* request headers of a delivery: X-GitHub-Event absent or set
HeaderSets == { EmptyDict, [k \in {"X-GitHub-Event"} |-> "push"] }

JsonLoadsLenient(raw) == [ok |-> TRUE, value |-> raw, error |-> ""]

\* json.loads on the bodies that occur: the parsed value, or the decode error
JsonLoads(raw) ==
    CASE raw = "null" -> [ok |-> TRUE, value |-> "None", error |-> ""]
      [] raw = "{\"ref\":\"refs/heads/main\"}"
              -> [ok |-> TRUE, value |-> "{'ref': 'refs/heads/main'}", error |-> ""]
      [] OTHER -> [ok |-> FALSE, value |-> "",
                   error |-> "Expecting value: line 1 column 1 (char 0)"]

\* json.dumps(payload, ensure_ascii=False, indent=2) on the values that occur
JsonDumps(value) ==
    IF value = "None" THEN "null"
    ELSE IF value = "{'ref': 'refs/heads/main'}"
    THEN "{\n  \"ref\": \"refs/heads/main\"\n}"
    ELSE "?"

\* lines 106-109
WebhookMessage(event_type, payload) ==
    <<"webhook_event", event_type, "Payload:", JsonDumps(payload)>>

HookTask(pc, method, headers, body, message, resp, exc) ==
    [kind |-> "webhook", pc |-> pc, self |-> server_self, method |-> method,
     headers |-> headers, body |-> body, message |-> message, sends |-> 0,
     resp |-> resp, exc |-> exc]

\* lines 99-102: up to the await on the request body
webhook_begin(method, headers, body) ==
    /\ deliveries < MaxDeliveries
    /\ IF Upper(method) # "POST"
       THEN /\ done' = HookTask("done", method, EmptyDict, "", <<>>,
                                Response(405, <<"method_not_allowed">>), None)
            /\ UNCHANGED <<inflight, deliveries>>
       ELSE /\ Suspend(HookTask("await_body", method, headers, body, <<>>,
                                NoResponse, None))
            /\ deliveries' = IF JsonLoads(body).ok THEN deliveries + 1 ELSE deliveries
            /\ UNCHANGED done
    /\ UNCHANGED <<lifecycle, user_tokens,
                   webhook_channel, granted, dispatched>>

ChannelConfiguredNotNone(channel) == channel # <<"N", "o", "n", "e">>

\* line 110: if self.webhook_channel
ChannelConfigured(channel) == channel # <<>>

\* lines 102-115: the body is read; up to the await on send_message
webhook_payload(t) ==
    LET parsed == JsonLoads(t.body)
        event_type == GetDefault(t.headers, "X-GitHub-Event", "unknown")
        message == WebhookMessage(event_type, parsed.value)
    IN  /\ IF ~parsed.ok
           THEN /\ Finish(t)
                /\ done' = [t EXCEPT !.pc = "done",
                               !.resp = Response(400, <<"parse_failed", parsed.error>>)]
                /\ UNCHANGED dispatched
           ELSE IF ChannelConfigured(webhook_channel)
           THEN /\ Resume(t, [t EXCEPT !.pc = "await_send", !.message = message,
                                        !.sends = @ + 1])
                /\ dispatched' = dispatched + 1
                /\ UNCHANGED done
           ELSE /\ Finish(t)
                /\ done' = [t EXCEPT !.pc = "done", !.message = message,
                               !.resp = Response(200, <<"webhook_received">>)]
                /\ UNCHANGED dispatched
        /\ UNCHANGED <<lifecycle, user_tokens,
                       webhook_channel, granted, deliveries>>

\* lines 111-115: send_message returned
webhook_sent(t) ==
    /\ Finish(t)
    /\ done' = [t EXCEPT !.pc = "done", !.resp = Response(200, <<"webhook_received">>)]
    /\ UNCHANGED <<lifecycle, user_tokens,
                   webhook_channel, granted, deliveries, dispatched>>

webhook_send_error_swallowed(t, exc) ==
    /\ Finish(t)
    /\ done' = [t EXCEPT !.pc = "done", !.exc = exc,
                         !.resp = Response(200, <<"webhook_received">>)]
    /\ UNCHANGED <<lifecycle, user_tokens,
                   webhook_channel, granted, deliveries, dispatched>>

\* lines 111-114: send_message raised; nothing catches it
webhook_send_error(t, exc) ==
    /\ Finish(t)
    /\ done' = [t EXCEPT !.pc = "raised", !.exc = exc]
    /\ UNCHANGED <<lifecycle, user_tokens,
                   webhook_channel, granted, deliveries, dispatched>>

----------------------------------------------------------------------------
(* Specification: one plugin instance, authorize-callbacks and commands *)

\* webhookChannel values of the configuration, as character sequences
ChannelConfigs == { <<>>, <<" ">>, <<"#", "c">>, <<" ", "#", "c", " ">> }

RECURSIVE LStrip(_)
LStrip(s) == IF s # <<>> /\ Head(s) = " " THEN LStrip(Tail(s)) ELSE s

RECURSIVE RStrip(_)
RStrip(s) == IF s # <<>> /\ s[Len(s)] = " " THEN RStrip(SubSeq(s, 1, Len(s) - 1)) ELSE s

\* str.strip()
Strip(s) == RStrip(LStrip(s))

\* line 28: config.get("webhookChannel", "")
DefaultChannel == <<>>

\* lines 17-37: the class attribute and the first construction, with the
\* webhookChannel value of the configuration
Constructed(channel) ==
    /\ server_started = TRUE
    /\ constructed = 1
    /\ server_self = 1
    /\ server_tasks = 1
    /\ user_tokens = <<EmptyDict>>
    /\ webhook_channel = Strip(channel)
    /\ inflight = EmptyBag
    /\ done = NoCall
    /\ granted = [u \in Users |-> None]
    /\ deliveries = 0
    /\ dispatched = 0

Init == Constructed(DefaultChannel)

OAuthBegin == \E m \in Methods, q \in Queries : oauth_callback_begin(m, q)
OAuthResponse ==
    \E t \in Suspended("oauth", "await_token"), r \in TokenResults :
        oauth_token_response(t, r)
OAuthError ==
    \E t \in Suspended("oauth", "await_token") : oauth_token_error(t, "ClientError")
OAuthFinish == \E t \in Suspended("oauth", "close_session") : oauth_callback_finish(t)
ReposBegin == \E u \in Users : github_repos_begin(server_self, u)
ReposResponse ==
    \E t \in Suspended("repos", "await_get"), r \in ApiResponses :
        github_repos_response(t, r)
ReposError ==
    \E t \in Suspended("repos", "await_get") : github_repos_error(t, "ClientError")

Next ==
    \/ OAuthBegin
    \/ OAuthResponse
    \/ OAuthError
    \/ OAuthFinish
    \/ ReposBegin
    \/ ReposResponse
    \/ ReposError

Spec == Init /\ [][Next]_vars

----------------------------------------------------------------------------
(* Specification: one plugin instance, webhook deliveries *)

HookBegin ==
    \E m \in Methods, h \in HeaderSets, b \in Bodies : webhook_begin(m, h, b)
HookPayload == \E t \in Suspended("webhook", "await_body") : webhook_payload(t)
HookSent == \E t \in Suspended("webhook", "await_send") : webhook_sent(t)
HookSendError ==
    \E t \in Suspended("webhook", "await_send") : webhook_send_error(t, "SendError")

NextWebhook ==
    \/ HookBegin
    \/ HookPayload
    \/ HookSent
    \/ HookSendError

InitWebhook == \E c \in ChannelConfigs : Constructed(c)

SpecWebhook == InitWebhook /\ [][NextWebhook]_vars

----------------------------------------------------------------------------
(* Specification: the plugin constructed repeatedly in one process *)

\* lines 16-17: the class before any construction
ClassLoaded ==
    /\ server_started = FALSE
    /\ constructed = 0
    /\ server_self = 0
    /\ server_tasks = 0
    /\ user_tokens = <<>>
    /\ webhook_channel = Strip(DefaultChannel)
    /\ inflight = EmptyBag
    /\ done = NoCall
    /\ granted = [u \in Users |-> None]
    /\ deliveries = 0
    /\ dispatched = 0

StartAlways(started) == TRUE

\* line 35: if not GitHubPlugin._server_started
StartNeeded(started) == ~started

\* lines 19-37: GitHubPlugin(context, config)
Construct ==
    /\ constructed < MaxInstances
    /\ constructed' = constructed + 1
    /\ user_tokens' = Append(user_tokens, EmptyDict)
    /\ IF StartNeeded(server_started)
       THEN /\ server_started' = TRUE
            /\ server_tasks' = server_tasks + 1
            /\ server_self' = constructed + 1
       ELSE UNCHANGED <<server_started, server_tasks, server_self>>
    /\ UNCHANGED <<webhook_channel, inflight, done, granted, deliveries, dispatched>>

\* the routes exist once start_http_server of some instance has run
ServerUp == server_self # 0

\* the command is dispatched to one of the instances constructed
ReposBeginAny == \E i \in 1..constructed, u \in Users : github_repos_begin(i, u)

NextReload ==
    \/ Construct
    \/ ServerUp /\ OAuthBegin
    \/ OAuthResponse
    \/ OAuthError
    \/ OAuthFinish
    \/ ReposBeginAny
    \/ ReposResponse
    \/ ReposError

SpecReload == ClassLoaded /\ [][NextReload]_vars

----------------------------------------------------------------------------
(* Properties of the authorize-callback and of github.repos (Spec) *)

\* the coroutine t was suspended for the first time in this step
Began(t) == CopiesIn(t, inflight') > CopiesIn(t, inflight)

ReposBegun == { t \in BagToSet(inflight') : t.kind = "repos" /\ Began(t) }

\* the POSTs to the token endpoint that are outstanding
TokenRequests == { TokenRequest(t) : t \in Suspended("oauth", "await_token") }

Denied(result) == result # Unset /\ "access_token" \notin DOMAIN result

\* C1: once an exchange for a state has completed with access token T, a
\* github.repos call by the sender with that id sends "token T" in the
\* Authorization header of its GET to the repositories endpoint, and is not
\* answered with the not-authorized reply, until a later exchange for that
\* state completes.
C1_GrantedTokenIsSent ==
    [][ /\ \A t \in ReposBegun :
              granted[t.user_id] # None =>
                  /\ ReposRequest(t).method = "GET"
                  /\ ReposRequest(t).headers.Authorization
                        = <<"token ", granted[t.user_id]>>
        /\ (done'.kind = "repos" /\ done'.reply = <<"not_authorized">>)
              => granted'[done'.user_id] = None ]_vars

C1_Witness ==
    \E t \in Suspended("repos", "await_get") :
        /\ done.kind = "oauth" /\ done.resp.status = 200
        /\ done.state = t.user_id
        /\ granted[t.user_id] = "T1"
        /\ t.headers.Authorization = <<"token ", "T1">>

\* C2: after exchanges A and then B have completed for the same state, the
\* store holds one token for that state, B's, and a github.repos call that
\* starts afterwards reads B's token.
C2_ReauthorizationOverwrites ==
    [][ /\ \A u \in Users :
              granted'[u] # None =>
                  /\ u \in DOMAIN user_tokens'[server_self']
                  /\ user_tokens'[server_self'][u] = granted'[u]
        /\ \A t \in ReposBegun : t.token = granted'[t.user_id] ]_vars

C2_Witness ==
    \E a, b \in Suspended("repos", "await_get") :
        /\ a.user_id = b.user_id
        /\ a.token = "T1" /\ b.token = "T2"
        /\ granted[a.user_id] = "T2"
        /\ Get(Store(server_self), a.user_id) = "T2"

\* C3: a GET authorize-callback whose code or state is absent or empty is
\* answered 400, no POST to the token endpoint carries an absent or empty
\* code or state, and the step leaves the token store as it was.
C3_MissingParameter ==
    [][ /\ (done'.kind = "oauth" /\ Upper(done'.method) = "GET"
            /\ (done'.code \in {None, ""} \/ done'.state \in {None, ""}))
              => /\ done'.pc = "done"
                 /\ done'.resp.status = 400
                 /\ done'.result = Unset
                 /\ user_tokens' = user_tokens
        /\ \A r \in TokenRequests' :
              r.code \notin {None, ""} /\ r.state \notin {None, ""} ]_vars

C3_Witness ==
    /\ done.kind = "oauth" /\ done.method = "GET"
    /\ done.code = "c1" /\ done.state = None
    /\ done.resp.status = 400
    /\ DOMAIN Store(server_self) # {}

\* C4: github.repos for a sender with no entry in the token store is answered
\* with the not-authorized reply at once, and no GET is sent for it.
C4_Unauthorized ==
    [][ /\ \A t \in ReposBegun : t.user_id \in DOMAIN user_tokens[t.self]
        /\ (done'.kind = "repos" /\ done'.user_id \notin DOMAIN user_tokens[done'.self])
              => /\ done'.pc = "done"
                 /\ done'.reply = <<"not_authorized">>
                 /\ done'.headers = NoHeaders
                 /\ done'.status = 0 ]_vars

C4_Witness ==
    /\ done.kind = "repos" /\ done.reply = <<"not_authorized">>
    /\ done.user_id = "u2"
    /\ "u1" \in DOMAIN Store(server_self)
    /\ "u2" \notin DOMAIN Store(server_self)

\* C5: when authorize-callbacks for distinct states are in flight together,
\* every write to the store is made by a callback that completes, goes to the
\* entry of that callback's own state and is the access token of its own
\* exchange; every other entry keeps its value.
C5_NoCrossWrite ==
    [][ /\ \A k \in DOMAIN user_tokens[server_self]
                    \cup DOMAIN user_tokens'[server_self] :
              Get(user_tokens'[server_self], k) # Get(user_tokens[server_self], k)
                  => /\ done'.kind = "oauth" /\ done'.pc = "done"
                     /\ done'.state = k
                     /\ Get(done'.result, "access_token")
                           = user_tokens'[server_self][k]
        /\ (done'.kind = "oauth" /\ done'.resp.status = 200)
              => Get(user_tokens'[server_self], done'.state)
                    = Get(done'.result, "access_token") ]_vars

C5_Witness ==
    \E t \in Suspended("oauth", "close_session") :
        /\ done.kind = "oauth" /\ done.resp.status = 200
        /\ done.state = "u1" /\ t.state = "u2"
        /\ Get(done.result, "access_token") = "T1"
        /\ Get(t.result, "access_token") = "T2"
        /\ Store(server_self) = [u \in {"u1"} |-> "T1"]

\* C6: when the answer of the token endpoint has no access_token, the
\* callback is answered 400 with the error_description of the answer, or
\* with the placeholder when there is none, and the token store is left as
\* it was.
C6_AuthorizationDenied ==
    [][ (done'.kind = "oauth" /\ Denied(done'.result))
          => /\ done'.pc = "done"
             /\ done'.resp.status = 400
             /\ done'.resp.text =
                   <<"authorize_failed",
                     IF "error_description" \in DOMAIN done'.result
                     THEN done'.result["error_description"]
                     ELSE "unknown_error">>
             /\ user_tokens' = user_tokens ]_vars

C6_Witness ==
    /\ done.kind = "oauth" /\ Denied(done.result)
    /\ done.state = "u1"
    /\ done.resp.text = <<"authorize_failed", "bad_verification_code">>
    /\ Get(Store(server_self), "u1") = "T1"

\* C7: when the POST to the token endpoint raises, or its answer cannot be
\* read, the authorize-callback handler recovers: it ends with a 400 response
\* whose text carries the cause, and the exception does not leave the handler.
C7_TransportErrorRecovered ==
    (done.kind = "oauth" /\ done.exc # None)
        => /\ done.pc = "done"
           /\ done.resp.status = 400
           /\ \E i \in 1..Len(done.resp.text) : done.resp.text[i] = done.exc

----------------------------------------------------------------------------
(* Properties of the webhook intake (SpecWebhook) *)

NotJson == { "not-json" }

\* the coroutine t ended in this step
Ended(t) ==
    /\ CopiesIn(t, inflight') < CopiesIn(t, inflight)
    /\ BagCardinality(inflight') < BagCardinality(inflight)

RECURSIVE Copies(_, _)
Copies(S, bag) ==
    IF S = {} THEN 0
    ELSE LET t == CHOOSE x \in S : TRUE
         IN  CopiesIn(t, bag) + Copies(S \ {t}, bag)

\* deliveries with a JSON body whose body has not been read yet
PendingJson ==
    Copies({ t \in Suspended("webhook", "await_body") : t.body \notin NotJson },
           inflight)

\* C8: a delivery whose body is not JSON ends with a 400 response when its
\* body has been read; send_message is not called for it, with or without a
\* configured channel.
C8_MalformedPayload ==
    [][ /\ \A t \in Suspended("webhook", "await_body") :
              (t.body \in NotJson /\ CopiesIn(t, inflight') < CopiesIn(t, inflight))
                  => /\ Ended(t)
                     /\ done'.kind = "webhook" /\ done'.pc = "done"
                     /\ done'.body = t.body
                     /\ done'.resp.status = 400
                     /\ done'.sends = 0
                     /\ dispatched' = dispatched
        /\ \A t \in BagToSet(inflight') :
              (t.kind = "webhook" /\ t.pc = "await_send") => t.body \notin NotJson ]_vars

C8_Witness ==
    /\ done.kind = "webhook" /\ done.pc = "done"
    /\ done.body = "not-json"
    /\ done.resp.status = 400
    /\ webhook_channel # <<>>
    /\ dispatched = 0

\* C9: a delivery with a JSON body that is acknowledged with 200 has called
\* send_message once when a channel is configured and not at all when none
\* is; over a behaviour the calls of send_message number the deliveries with
\* a JSON body whose body has been read when a channel is configured, and
\* zero when none is.
C9_DispatchedOnce ==
    /\ (done.kind = "webhook" /\ done.resp.status = 200)
          => /\ done.body \notin NotJson
             /\ done.sends = IF webhook_channel # <<>> THEN 1 ELSE 0
    /\ \A t \in BagToSet(inflight) : t.kind = "webhook" => t.sends <= 1
    /\ webhook_channel # <<>> => dispatched + PendingJson = deliveries
    /\ webhook_channel = <<>> => dispatched = 0

C9_Witness ==
    /\ done.kind = "webhook" /\ done.resp.status = 200
    /\ done.sends = 1
    /\ webhook_channel # <<>>
    /\ deliveries = 2 /\ dispatched = 2
    /\ inflight = EmptyBag

\* C10: a delivery whose send_message call raised does not end with a 2xx
\* response: the exception leaves the handler and no response is returned.
C10_ForwardFailureNotSwallowed ==
    (done.kind = "webhook" /\ done.exc # None)
        => /\ done.pc = "raised"
           /\ done.resp.status \notin 200..299

C10_Witness ==
    /\ done.kind = "webhook" /\ done.exc = "SendError"
    /\ done.pc = "raised"
    /\ done.sends = 1
    /\ dispatched >= 1

----------------------------------------------------------------------------
(* Properties of the replies of github.repos (Spec) *)

ReposOutcomes == { "not_authorized", "fetch_failed", "no_repos", "your_repos" }

\* C11: a github.repos call of a sender with a stored token whose GET is
\* answered 200 with an empty list ends with the no-repositories reply,
\* which is neither the not-authorized nor the fetch-failed reply; and every
\* github.repos call that has ended has ended with one of the four replies:
\* not authorized, fetch failed, no repositories, or the full names in the
\* order of the answer.
C11_ReposOutcomes ==
    done.kind = "repos"
        => /\ done.pc = "done"
           /\ Len(done.reply) >= 1
           /\ done.reply[1] \in ReposOutcomes
           /\ (done.status = 200 /\ done.body = "[]") => done.reply = <<"no_repos">>
           /\ (done.status = 200 /\ done.body = "[a,b]")
                 => done.reply = <<"your_repos", "o/b", "o/a">>

\* C12 as stated: a status outside 200..299 gives the fetch-failed reply with
\* the status and the raw text of the answer, and every status in 200..299
\* gives one of the two successful replies.
C12_ByStatusClass ==
    (done.kind = "repos" /\ done.pc = "done" /\ done.status # 0)
        => IF done.status \in 200..299
           THEN done.reply[1] \in {"no_repos", "your_repos"}
           ELSE /\ done.reply[1] = "fetch_failed"
                /\ \E i \in 1..Len(done.reply) : done.reply[i] = done.body
                /\ \E i \in 1..Len(done.reply) : done.reply[i] = StatusText(done.status)

\* C12 as amended: every status other than 200 gives the fetch-failed reply,
\* which carries the raw text of the answer and nothing else; status 200 alone
\* gives one of the two successful replies.
C12_ByStatus200 ==
    (done.kind = "repos" /\ done.pc = "done" /\ done.status # 0)
        => IF done.status = 200
           THEN done.reply[1] \in {"no_repos", "your_repos"}
           ELSE done.reply = <<"fetch_failed", done.body>>

C12_Witness ==
    /\ done.kind = "repos" /\ done.pc = "done"
    /\ done.status = 202
    /\ done.reply = <<"fetch_failed", "[]">>

----------------------------------------------------------------------------
(* Properties of repeated construction (SpecReload) *)

\* C13: with any number of instances constructed, a token that a completed
\* exchange stored for a state is the token github.repos finds for that
\* sender on every instance, and no instance answers that sender with the
\* not-authorized reply.
C13_OneStore ==
    /\ \A i \in 1..constructed : \A u \in Users :
          granted[u] # None => Get(Store(i), u) = granted[u]
    /\ (done.kind = "repos" /\ done.reply = <<"not_authorized">>)
          => granted[done.user_id] = None

\* C14: start_http_server is scheduled by the first construction and by no
\* later one, the routes stay bound to the first instance, and
\* _server_started never goes back from true to false.
C14_ServerStartedOnce ==
    [][ /\ server_started => server_started'
        /\ constructed' = 0 => (server_tasks' = 0 /\ ~server_started')
        /\ constructed' >= 1
              => (server_started' /\ server_tasks' = 1 /\ server_self' = 1) ]_vars

C14_Witness ==
    /\ constructed = 2
    /\ server_started
    /\ server_tasks = 1
    /\ server_self = 1

----------------------------------------------------------------------------
(* Properties of overlapping authorize-callbacks for one state (Spec) *)

\* another authorize-callback for the state of t is in flight with t
Overlapped(t) ==
    \E o \in BagToSet(inflight) :
        /\ o.kind = "oauth" /\ o.state = t.state
        /\ o # t \/ CopiesIn(t, inflight) > 1

\* the access tokens that exchanges for state u in flight have obtained
Obtained(u) ==
    { Get(t.result, "access_token") :
        t \in { x \in Suspended("oauth", "close_session") : x.state = u } }

\* C15: when authorize-callbacks for the same state overlap, the callback
\* that completes writes the entry of that state in one step: after the step
\* the entry is the access token of that callback's exchange (the later write
\* replaces the earlier), or is left as it was when the exchange was denied;
\* an entry never disappears and never holds a value other than its previous
\* one or a token one of the exchanges in flight obtained.
C15_LastWriteWins ==
    [][ /\ \A t \in Suspended("oauth", "close_session") :
              (Ended(t) /\ Overlapped(t))
                  => LET tok == Get(t.result, "access_token")
                     IN  IF tok \in Tokens
                         THEN Get(user_tokens'[server_self], t.state) = tok
                         ELSE Get(user_tokens'[server_self], t.state)
                                 = Get(user_tokens[server_self], t.state)
        /\ \A u \in DOMAIN user_tokens[server_self] :
              /\ u \in DOMAIN user_tokens'[server_self]
              /\ user_tokens'[server_self][u]
                    \in ({user_tokens[server_self][u]} \cup Obtained(u)) \cap Tokens ]_vars

C15_Witness ==
    \E t \in Suspended("oauth", "close_session") :
        /\ t.state = "u1" /\ Get(t.result, "access_token") = "T1"
        /\ done.kind = "oauth" /\ done.pc = "done" /\ done.state = "u1"
        /\ Get(done.result, "access_token") = "T2"
        /\ Get(Store(server_self), "u1") = "T2"

----------------------------------------------------------------------------
(* Specification: one plugin instance serving both routes and the command *)

\* a webhookChannel value that names a channel
GatewayChannel == <<"#", "c">>

InitGateway == Constructed(GatewayChannel)

\* the requests and answers the gateway is exercised with: callbacks with
\* both parameters or with none, exchanges that grant or deny, a repository
\* list or a 404, deliveries with and without a JSON body
GatewayQueries ==
    { q \in Queries :
        q = EmptyDict \/ (Get(q, "code") \in Codes /\ Get(q, "state") \in Users) }
GatewayTokenResults ==
    { r \in TokenResults : r # EmptyDict /\ Get(r, "access_token") # "" }
GatewayApiResponses == { r \in ApiResponses : r.text # "[]" }
GatewayBodies == { "not-json", "null" }

GatewayOAuthBegin == \E q \in GatewayQueries : oauth_callback_begin("GET", q)
GatewayOAuthResponse ==
    \E t \in Suspended("oauth", "await_token"), r \in GatewayTokenResults :
        oauth_token_response(t, r)
GatewayReposResponse ==
    \E t \in Suspended("repos", "await_get"), r \in GatewayApiResponses :
        github_repos_response(t, r)
GatewayHookBegin == \E b \in GatewayBodies : webhook_begin("POST", EmptyDict, b)

NextGateway ==
    \/ GatewayOAuthBegin
    \/ GatewayOAuthResponse
    \/ OAuthError
    \/ OAuthFinish
    \/ ReposBegin
    \/ GatewayReposResponse
    \/ ReposError
    \/ GatewayHookBegin
    \/ HookPayload
    \/ HookSent
    \/ HookSendError

SpecGateway == InitGateway /\ [][NextGateway]_vars

----------------------------------------------------------------------------
(* Properties of handlers in flight together (SpecGateway) *)

\* t is suspended in its call to the token endpoint or the repositories endpoint
OutboundCall(t) ==
    \/ t.kind = "oauth" /\ t.pc = "await_token"
    \/ t.kind = "repos" /\ t.pc = "await_get"

\* the state or sender id the handler call t is for
Identity(t) == IF t.kind = "oauth" THEN t.state ELSE t.user_id

\* the handler call o in flight can take its next step
CanStep(o) ==
    IF o.kind = "oauth"
    THEN IF o.pc = "await_token"
         THEN \A r \in TokenResults : ENABLED oauth_token_response(o, r)
         ELSE ENABLED oauth_callback_finish(o)
    ELSE IF o.kind = "repos"
    THEN \A r \in ApiResponses : ENABLED github_repos_response(o, r)
    ELSE IF o.pc = "await_body"
         THEN ENABLED webhook_payload(o)
         ELSE ENABLED webhook_sent(o)

\* C16: while a handler call t is suspended in its outbound call, (a) an
\* authorize-callback and a github.repos call for every other identity, and a
\* webhook delivery, can begin (as long as the bounds on handler calls in
\* flight and on deliveries are not reached), (b) every other handler call in
\* flight can take its next step, whatever answer it gets, and (c) a step in
\* which another handler call ends leaves t suspended as it was and is not
\* t's own step: nothing excludes the others while t waits.
C16_NoBlocking ==
    /\ [](\A t \in BagToSet(inflight) :
            OutboundCall(t) =>
              /\ BagCardinality(inflight) < MaxTasks =>
                   /\ \A u \in Users \ {Identity(t)} :
                        /\ ENABLED oauth_callback_begin("GET",
                                       [k \in {"code", "state"} |->
                                           IF k = "code" THEN "c1" ELSE u])
                        /\ ENABLED github_repos_begin(server_self, u)
                   /\ deliveries < MaxDeliveries =>
                        ENABLED webhook_begin("POST", EmptyDict, "null")
              /\ \A o \in BagToSet(inflight) \ {t} : CanStep(o))
    /\ [][\A t \in BagToSet(inflight) :
            OutboundCall(t) =>
              \A o \in BagToSet(inflight) \ {t} :
                  Ended(o) => CopiesIn(t, inflight') = CopiesIn(t, inflight)]_vars

\* a repository call of u1 is waiting for its answer, and the last handler
\* call to end is a webhook delivery, a callback of u2 or a command of u2
C16_Witness ==
    /\ \E t \in Suspended("repos", "await_get") : t.user_id = "u1"
    /\ Get(Store(server_self), "u2") = "T2"
    /\ done.kind = "webhook" /\ done.pc = "done" /\ done.resp.status = 200
    /\ dispatched >= 1

\* C17: an entry of the token store stays: after every step (of an
\* authorize-callback with any answer, of a github.repos call with any
\* answer, of a webhook delivery) every key of the store is still a key with
\* a non-empty token, and the token of a key changes only in the step in
\* which an authorize-callback for that state ends with the token its
\* exchange obtained.
C17_NoEviction ==
    [][\A k \in DOMAIN user_tokens[server_self] :
          /\ k \in DOMAIN user_tokens'[server_self]
          /\ Truthy(user_tokens'[server_self][k])
          /\ user_tokens'[server_self][k] # user_tokens[server_self][k]
                => \E t \in Suspended("oauth", "close_session") :
                      /\ Ended(t) /\ t.state = k
                      /\ Get(t.result, "access_token") = user_tokens'[server_self][k]
                      /\ done'.kind = "oauth" /\ done'.pc = "done"
                      /\ done'.resp.status = 200]_vars

\* both identities hold a token, webhook deliveries were accepted, and the
\* last handler call to end is a denied authorize-callback for u1
C17_Witness ==
    /\ Get(Store(server_self), "u1") = "T1"
    /\ Get(Store(server_self), "u2") = "T2"
    /\ deliveries >= 1
    /\ done.kind = "oauth" /\ done.pc = "done" /\ done.state = "u1"
    /\ Denied(done.result) /\ done.resp.status = 400

====
